---- MODULE Spec2Model ----
(***************************************************************************)
(* Model of scaffoldmaker/utils/tubemesh.py: generatetubemesh and its two  *)
(* helpers getOuterCoordinatesAndCurvatureFromInner and                    *)
(* interpolatefromInnerAndOuter.                                           *)
(*                                                                         *)
(* Numbers are exact rationals <<numerator, denominator>>; vectors are     *)
(* 3-tuples of rationals; Python lists are sequences read with At (0-based *)
(* index).  An angle is kept as its <<cosine, sine>> pair.                 *)
(***************************************************************************)
EXTENDS Integers, Sequences, FiniteSets, TLC

\* ---------------------------------------------------------------- bounds
MaxAround == 3
MaxAlongSegment == 2
MaxSegments == 2
MaxThroughWall == 2
MaxThickness == 1
MaxFirstNodeIdentifier == 2
ProfileRadius == 1
SqrtPrecision == 16

\* ------------------------------------------------------- exact arithmetic
Abs(i) == IF i < 0 THEN -i ELSE i

RECURSIVE GCD(_, _)
GCD(a, b) == IF b = 0 THEN a ELSE GCD(b, a % b)

Norm(n, d) ==
    LET s == IF d < 0 THEN -1 ELSE 1
        g == GCD(Abs(n), Abs(d))
    IN  <<(s * n) \div g, (s * d) \div g>>

R(i) == <<i, 1>>
RAdd(a, b) == Norm(a[1] * b[2] + b[1] * a[2], a[2] * b[2])
RSub(a, b) == Norm(a[1] * b[2] - b[1] * a[2], a[2] * b[2])
RMul(a, b) == Norm(a[1] * b[1], a[2] * b[2])
RDiv(a, b) == Norm(a[1] * b[2], a[2] * b[1])
RNeg(a) == <<-a[1], a[2]>>
RGt(a, b) == a[1] * b[2] > b[1] * a[2]

\* the integer part of the square root of n, by bisection of lo..hi
RECURSIVE SqrtSearch(_, _, _)
SqrtSearch(n, lo, hi) ==
    IF lo >= hi THEN lo
    ELSE IF ((lo + hi + 1) \div 2) * ((lo + hi + 1) \div 2) <= n
         THEN SqrtSearch(n, (lo + hi + 1) \div 2, hi)
         ELSE SqrtSearch(n, lo, ((lo + hi + 1) \div 2) - 1)
\* the largest root whose square is a 32-bit integer
MaxRoot == 46340
ISqrt(n) == SqrtSearch(n, 0, IF n < MaxRoot THEN n ELSE MaxRoot)
\* math.sqrt: exact when the root is rational, otherwise rounded down to a
\* multiple of 1/(denominator * SqrtPrecision), as floating point rounds
RSqrt(a) ==
    IF ISqrt(a[1]) * ISqrt(a[1]) = a[1] /\ ISqrt(a[2]) * ISqrt(a[2]) = a[2]
    THEN <<ISqrt(a[1]), ISqrt(a[2])>>
    ELSE Norm(ISqrt(a[1] * a[2] * SqrtPrecision * SqrtPrecision), a[2] * SqrtPrecision)

zero == <<R(0), R(0), R(0)>>
V(x, y, z) == <<R(x), R(y), R(z)>>
At(list, i) == list[i + 1]

VAdd(a, b) == << RAdd(a[1], b[1]), RAdd(a[2], b[2]), RAdd(a[3], b[3]) >>
VSub(a, b) == << RSub(a[1], b[1]), RSub(a[2], b[2]), RSub(a[3], b[3]) >>
VScale(s, a) == << RMul(s, a[1]), RMul(s, a[2]), RMul(s, a[3]) >>

\* scaffoldmaker.utils.vector
dotproduct(a, b) == RAdd(RAdd(RMul(a[1], b[1]), RMul(a[2], b[2])), RMul(a[3], b[3]))
crossproduct3(a, b) ==
    << RSub(RMul(a[2], b[3]), RMul(a[3], b[2])),
       RSub(RMul(a[3], b[1]), RMul(a[1], b[3])),
       RSub(RMul(a[1], b[2]), RMul(a[2], b[1])) >>
magnitude(a) == RSqrt(dotproduct(a, a))
normalise(a) ==
    LET mag == magnitude(a)
    IN  << RDiv(a[1], mag), RDiv(a[2], mag), RDiv(a[3], mag) >>

\* math.acos: the angle in [0, pi] whose cosine is c, as <<cos, sin>>
acos(c) == <<c, RSqrt(RSub(R(1), RMul(c, c)))>>
\* the product sign*theta of a scalar of magnitude at most 1 and an angle
AngleTimes(s, theta) ==
    IF s = R(1) THEN theta
    ELSE IF s = R(-1) THEN <<theta[1], RNeg(theta[2])>>
    ELSE CHOOSE none \in {<<R(1), R(0)>>} : s = R(0)

\* scaffoldmaker.utils.matrix
getRotationMatrixFromAxisAngle(rotAxis, theta) ==
    LET cosTheta == theta[1]
        sinTheta == theta[2]
        C == RSub(R(1), cosTheta)
        P(p, q) == RMul(RMul(rotAxis[p], rotAxis[q]), C)
    IN  << << RAdd(P(1, 1), cosTheta),
              RSub(P(1, 2), RMul(rotAxis[3], sinTheta)),
              RAdd(P(1, 3), RMul(rotAxis[2], sinTheta)) >>,
           << RAdd(P(2, 1), RMul(rotAxis[3], sinTheta)),
              RAdd(P(2, 2), cosTheta),
              RSub(P(2, 3), RMul(rotAxis[1], sinTheta)) >>,
           << RSub(P(3, 1), RMul(rotAxis[2], sinTheta)),
              RAdd(P(3, 2), RMul(rotAxis[1], sinTheta)),
              RAdd(P(3, 3), cosTheta) >> >>

\* [mat[j][0]*w[0] + mat[j][1]*w[1] + mat[j][2]*w[2] for j in range(3)]
MatVec(mat, w) ==
    << dotproduct(mat[1], w), dotproduct(mat[2], w), dotproduct(mat[3], w) >>

identity3 == << V(1, 0, 0), V(0, 1, 0), V(0, 0, 1) >>

\* scaffoldmaker.utils.interpolation
interpolateCubicHermite(v1, d1, v2, d2, xi) ==
    LET xi2 == RMul(xi, xi)
        xi3 == RMul(xi2, xi)
        f1 == RAdd(RSub(R(1), RMul(R(3), xi2)), RMul(R(2), xi3))
        f2 == RAdd(RSub(xi, RMul(R(2), xi2)), xi3)
        f3 == RSub(RMul(R(3), xi2), RMul(R(2), xi3))
        f4 == RSub(xi3, xi2)
        c(j) == RAdd(RAdd(RMul(f1, v1[j]), RMul(f2, d1[j])),
                     RAdd(RMul(f3, v2[j]), RMul(f4, d2[j])))
    IN  << c(1), c(2), c(3) >>

interpolateCubicHermiteDerivative(v1, d1, v2, d2, xi) ==
    LET xi2 == RMul(xi, xi)
        f1 == RSub(RMul(R(6), xi2), RMul(R(6), xi))
        f2 == RAdd(RSub(R(1), RMul(R(4), xi)), RMul(R(3), xi2))
        f3 == RSub(RMul(R(6), xi), RMul(R(6), xi2))
        f4 == RSub(RMul(R(3), xi2), RMul(R(2), xi))
        c(j) == RAdd(RAdd(RMul(f1, v1[j]), RMul(f2, d1[j])),
                     RAdd(RMul(f3, v2[j]), RMul(f4, d2[j])))
    IN  << c(1), c(2), c(3) >>

interpolateCubicHermiteSecondDerivative(v1, d1, v2, d2, xi) ==
    LET f1 == RSub(RMul(R(12), xi), R(6))
        f2 == RSub(RMul(R(6), xi), R(4))
        f3 == RSub(R(6), RMul(R(12), xi))
        f4 == RSub(RMul(R(6), xi), R(2))
        c(j) == RAdd(RAdd(RMul(f1, v1[j]), RMul(f2, d1[j])),
                     RAdd(RMul(f3, v2[j]), RMul(f4, d2[j])))
    IN  << c(1), c(2), c(3) >>

\* curvature |t x t''| / |t|^3 of the Hermite curve at xi
getCubicHermiteCurvatureSimple(v1, d1, v2, d2, xi) ==
    LET tangent == interpolateCubicHermiteDerivative(v1, d1, v2, d2, xi)
        dTangent == interpolateCubicHermiteSecondDerivative(v1, d1, v2, d2, xi)
        cp == crossproduct3(tangent, dTangent)
        mag == magnitude(tangent)
    IN  IF RGt(mag, R(0))
        THEN RDiv(magnitude(cp), RMul(mag, RMul(mag, mag)))
        ELSE R(0)

\* one-sided difference at the two ends of the fibre, central difference
\* of the two neighbouring segments inside; positions are not changed
smoothCubicHermiteDerivativesLine(nx, nd1) ==
    LET last == Len(nx)
    IN  [i \in 1..last |->
            IF last = 1 THEN nd1[i]
            ELSE IF i = 1 THEN VSub(nx[2], nx[1])
            ELSE IF i = last THEN VSub(nx[last], nx[last - 1])
            ELSE VScale(<<1, 2>>, VSub(nx[i + 1], nx[i - 1]))]

\* ------------------------------------------------------------------ state
VARIABLES
    \* arguments of generatetubemesh
    elementsCountAround, elementsCountAlongSegment, elementsCountThroughWall,
    segmentCountAlong, wallThickness, segmentLength, transitElementList,
    useCrossDerivatives, useCubicHermiteThroughWall, firstNodeIdentifier,
    \* the sampled central line (sx, sd1, sd2)
    sx, sd1, sd2,
    \* control: stage of the run, the exception that ended it, loop counters
    pc, raised, nSegment, nAlongSegment, n1, n2, n3, e1, e2, e3,
    \* locals of generatetubemesh
    unitTangent, cp, rotFrame, midRot, translateMatrix, rotFrame2,
    xInnerList, d1InnerList, d2InnerList, d3InnerUnitList,
    \* history: the profile index n of line 143 used for each appended point
    profileIndexList,
    smoothd2Raw, smoothd2InnerList, curvatureAlong,
    xOuterList, curvatureInner,
    xList, dx_ds1List, dx_ds2List, dx_ds3List, factorList,
    d1List, nodeIdentifier, elementIdentifier,
    \* the field module: open change scopes, node template, nodes, elements
    changeLevel, nodetemplate, nodes, elements

args == << elementsCountAround, elementsCountAlongSegment, elementsCountThroughWall,
           segmentCountAlong, wallThickness, segmentLength, transitElementList,
           useCrossDerivatives, useCubicHermiteThroughWall, firstNodeIdentifier,
           sx, sd1, sd2 >>
counters == << nSegment, nAlongSegment, n1, n2, n3, e1, e2, e3 >>
frame == << unitTangent, cp, rotFrame, midRot, translateMatrix >>
aligned == << frame, rotFrame2, xInnerList, d1InnerList, d2InnerList, d3InnerUnitList,
              profileIndexList >>
derived == << smoothd2Raw, smoothd2InnerList, curvatureAlong, xOuterList, curvatureInner >>
vertices == << xList, dx_ds1List, dx_ds2List, dx_ds3List, factorList >>
sink == << changeLevel, nodetemplate, nodes, elements >>
vars == << args, counters, aligned, derived, vertices, sink,
           pc, raised, d1List, nodeIdentifier, elementIdentifier >>

\* -------------------------------------------------------------- arguments
firstElementIdentifier == 1
segmentAxis == V(0, 0, 1)
elementsCountAlong == elementsCountAlongSegment * segmentCountAlong
now == (elementsCountAlong + 1) * elementsCountAround

AxisX == V(1, 0, 0)
AxisY == V(0, 1, 0)
AxisZ == V(0, 0, 1)

\* the segment profile: elementsCountAround points on a ring of radius
\* ProfileRadius about the z axis at each of the elementsCountAlongSegment + 1
\* faces of the segment, in the segment's own frame
AroundDir(k) ==
    LET q == ((k * 4) \div elementsCountAround) % 4
    IN  IF q = 0 THEN AxisX ELSE IF q = 1 THEN AxisY
        ELSE IF q = 2 THEN V(-1, 0, 0) ELSE V(0, -1, 0)
faceZ(nAlong) ==
    RMul(RDiv(segmentLength, R(elementsCountAlongSegment)), R(nAlong))
xInner ==
    [n \in 1..(elementsCountAlongSegment + 1) * elementsCountAround |->
        LET k == (n - 1) % elementsCountAround
            nAlong == (n - 1) \div elementsCountAround
        IN  VAdd(VScale(R(ProfileRadius), AroundDir(k)), <<R(0), R(0), faceZ(nAlong)>>)]
d1Inner ==
    [n \in 1..(elementsCountAlongSegment + 1) * elementsCountAround |->
        crossproduct3(AxisZ, AroundDir((n - 1) % elementsCountAround))]
d2Inner ==
    [n \in 1..(elementsCountAlongSegment + 1) * elementsCountAround |->
        <<R(0), R(0), RDiv(segmentLength, R(elementsCountAlongSegment))>>]
\* xi of each node around the profile, the closing node included
\* the intervals around grow in the ratio 1 : 2 : 3 ...
uList ==
    [i \in 1..elementsCountAround + 1 |->
        RDiv(R((i - 1) * i), R(elementsCountAround * (elementsCountAround + 1)))]
arcLengthOuterMidLength == R(elementsCountAround)

\* ------------------------------------------------------------------- Init
TangentSet == {AxisZ, AxisX}
CrossSet == {AxisY, V(1, 0, 1)}

\* positions of the stations of a central line with the given tangents
RECURSIVE Positions(_, _)
Positions(tangents, k) ==
    IF k = 0 THEN << zero >>
    ELSE LET prev == Positions(tangents, k - 1)
         IN  Append(prev, VAdd(prev[k], tangents[k + 1]))

\* tangent AxisX up to station bend - 1, AxisZ from station bend on
BentLine(count, bend) == [i \in 1..count + 1 |-> IF i - 1 < bend THEN AxisX ELSE AxisZ]

InitLocals ==
    /\ pc = "begin" /\ raised = ""
    /\ nSegment = 0 /\ nAlongSegment = 0
    /\ n1 = 0 /\ n2 = 0 /\ n3 = 0 /\ e1 = 0 /\ e2 = 0 /\ e3 = 0
    /\ unitTangent = <<>> /\ cp = <<>> /\ rotFrame = <<>> /\ midRot = <<>>
    /\ translateMatrix = <<>> /\ rotFrame2 = <<>>
    /\ xInnerList = <<>> /\ d1InnerList = <<>> /\ d2InnerList = <<>>
    /\ d3InnerUnitList = <<>> /\ profileIndexList = <<>>
    /\ smoothd2Raw = <<>> /\ smoothd2InnerList = <<>> /\ curvatureAlong = <<>>
    /\ xOuterList = <<>> /\ curvatureInner = <<>>
    /\ xList = <<>> /\ dx_ds1List = <<>> /\ dx_ds2List = <<>> /\ dx_ds3List = <<>>
    /\ factorList = <<>> /\ d1List = <<>>
    /\ nodeIdentifier = 0 /\ elementIdentifier = 0
    /\ changeLevel = 0 /\ nodetemplate = {} /\ nodes = <<>> /\ elements = <<>>

InitCounts ==
    /\ elementsCountAround \in 2..MaxAround
    /\ elementsCountAlongSegment \in 1..MaxAlongSegment
    /\ segmentCountAlong \in 1..MaxSegments
    /\ segmentLength = R(elementsCountAlongSegment)

InitDefaults ==
    /\ transitElementList = [i \in 1..elementsCountAround |-> FALSE]
    /\ useCrossDerivatives = FALSE /\ useCubicHermiteThroughWall = TRUE
    /\ firstNodeIdentifier = 1

\* any central line of one segment or of one-element segments, around the
\* smallest ring
InitLines ==
    /\ InitCounts /\ InitDefaults
    /\ elementsCountAround = 2
    /\ elementsCountAlongSegment = 1 \/ segmentCountAlong = 1
    /\ elementsCountThroughWall = 1
    /\ wallThickness = R(MaxThickness)
    /\ sd1 \in [1..elementsCountAlong + 1 -> TangentSet]
    /\ \E c \in CrossSet : sd2 = [i \in 1..elementsCountAlong + 1 |-> c]

\* any counts and thickness, on a line that bends at its last station
InitMeshes ==
    /\ InitCounts /\ InitDefaults
    /\ elementsCountThroughWall \in 1..MaxThroughWall
    /\ wallThickness \in {R(t) : t \in 0..MaxThickness}
    /\ sd1 = BentLine(elementsCountAlong, elementsCountAlong)
    /\ sd2 = [i \in 1..elementsCountAlong + 1 |-> AxisY]

\* any thickness, identifiers and basis flags, on the smallest mesh of each
\* number of layers, on a line that bends or not
InitOptions ==
    /\ elementsCountAround = 2
    /\ elementsCountAlongSegment = 1 /\ segmentCountAlong = 1
    /\ segmentLength = R(1)
    /\ elementsCountThroughWall \in 1..MaxThroughWall
    /\ wallThickness \in {R(t) : t \in 0..MaxThickness}
    /\ transitElementList = [i \in 1..elementsCountAround |-> FALSE]
    /\ useCrossDerivatives \in BOOLEAN /\ useCubicHermiteThroughWall \in BOOLEAN
    /\ firstNodeIdentifier \in 1..MaxFirstNodeIdentifier
    /\ \E bend \in {elementsCountAlong, elementsCountAlong + 1} :
            sd1 = BentLine(elementsCountAlong, bend)
    /\ sd2 = [i \in 1..elementsCountAlong + 1 |-> AxisY]

\* any pattern of transition elements
InitTransit ==
    /\ elementsCountAround \in 2..MaxAround
    /\ elementsCountAlongSegment = 1 /\ segmentCountAlong = 1
    /\ segmentLength = R(1)
    /\ elementsCountThroughWall \in 1..MaxThroughWall
    /\ wallThickness \in {R(t) : t \in 0..MaxThickness}
    /\ transitElementList \in [1..elementsCountAround -> BOOLEAN]
    /\ useCrossDerivatives = FALSE /\ useCubicHermiteThroughWall = TRUE
    /\ firstNodeIdentifier = 1
    /\ sd1 = BentLine(elementsCountAlong, elementsCountAlong)
    /\ sd2 = [i \in 1..elementsCountAlong + 1 |-> AxisY]

Init ==
    /\ InitLines \/ InitMeshes \/ InitOptions \/ InitTransit
    /\ sx = Positions(sd1, elementsCountAlong)
    /\ InitLocals

\* ------------------------------------------------------------ begin (73-106)
\* value labels given a version on the coordinates node template (79-91)
NodetemplateLabels ==
    {"VALUE", "D_DS1", "D_DS2"}
    \cup (IF useCrossDerivatives THEN {"D2_DS1DS2"} ELSE {})
    \cup (IF useCubicHermiteThroughWall THEN {"D_DS3"} ELSE {})
    \cup (IF useCubicHermiteThroughWall /\ useCrossDerivatives
          THEN {"D2_DS1DS3", "D2_DS2DS3", "D3_DS1DS2DS3"} ELSE {})

BeginChange ==
    /\ pc = "begin"
    /\ changeLevel' = changeLevel + 1
    /\ nodetemplate' = NodetemplateLabels
    /\ nodeIdentifier' = firstNodeIdentifier
    /\ pc' = "align"
    /\ UNCHANGED << args, counters, aligned, derived, vertices, nodes, elements,
                    raised, d1List, elementIdentifier >>

\* ------------------------------------------------- frame aligner (125-181)
\* line 128 without the test of the segment's first sub-station
StationMappedInEverySegment == nSegment >= 0
\* line 128
StationIsMapped == nSegment = 0 \/ (nSegment > 0 /\ nAlongSegment > 0)

\* the loop headers of lines 125-126 after one pass of the body
AlignAdvance ==
    IF nAlongSegment < elementsCountAlongSegment
    THEN nAlongSegment' = nAlongSegment + 1 /\ nSegment' = nSegment /\ pc' = "align"
    ELSE /\ nAlongSegment' = 0
         /\ nSegment' = nSegment + 1
         /\ pc' = IF nSegment + 1 < segmentCountAlong THEN "align" ELSE "smooth"

\* line 130
segmentMidAt(nAlong) == << R(0), R(0), faceZ(nAlong) >>

\* lines 127-140: the frame of one station; a station shared with the
\* previous segment is passed over
AlignFrame ==
    /\ pc = "align"
    /\ n2' = nSegment * elementsCountAlongSegment + nAlongSegment
    /\ IF ~StationIsMapped
       THEN /\ AlignAdvance
            /\ UNCHANGED << frame, n1 >>
       ELSE LET segmentMid == segmentMidAt(nAlongSegment)
                tangent == normalise(At(sd1, n2'))
                cross == crossproduct3(segmentAxis, tangent)
                axisRot == normalise(cross)
                thetaRot == acos(dotproduct(segmentAxis, tangent))
                rotation == getRotationMatrixFromAxisAngle(axisRot, thetaRot)
            IN  /\ unitTangent' = tangent
                /\ cp' = cross
                /\ IF RGt(magnitude(cross), R(0))
                   THEN /\ rotFrame' = rotation
                        /\ midRot' = MatVec(rotation, segmentMid)
                        /\ translateMatrix' = VSub(At(sx, n2'), midRot')
                   ELSE /\ midRot' = segmentMid
                        /\ UNCHANGED << rotFrame, translateMatrix >>
                /\ n1' = 0
                /\ pc' = "align_point"
                /\ UNCHANGED << nSegment, nAlongSegment >>
    /\ UNCHANGED << args, derived, vertices, sink, n3, e1, e2, e3, raised,
                    rotFrame2, xInnerList, d1InnerList, d2InnerList, d3InnerUnitList,
                    profileIndexList, d1List, nodeIdentifier, elementIdentifier >>

\* lines 152-168: the rotation about the tangent that takes the first point
\* of the face, xRot1, to the projection of sd2 on the plane normal to the tangent
rotFrame2Of(xRot1) ==
    LET v == At(sd2, n2)
        pt == VAdd(midRot, v)
        dist == dotproduct(v, unitTangent)
        ptOnPlane == VSub(pt, VScale(dist, unitTangent))
        newVector == VSub(ptOnPlane, midRot)
        firstVector == normalise(VSub(xRot1, midRot))
        thetaRot2 == acos(dotproduct(normalise(newVector), firstVector))
        cp2 == crossproduct3(normalise(newVector), firstVector)
        signThetaRot2 == dotproduct(unitTangent, normalise(cp2))
    IN  IF RGt(magnitude(cp2), R(0))
        THEN getRotationMatrixFromAxisAngle(unitTangent,
                 AngleTimes(RNeg(signThetaRot2), thetaRot2))
        ELSE identity3

\* lines 148-150 and 169-175: a vector of the profile after both rotations
Rot2(turned, rot1, rot2, vec) ==
    IF turned THEN MatVec(rot2, MatVec(rot1, vec)) ELSE vec

d3UnitOf(a1, a2) == normalise(crossproduct3(normalise(a1), normalise(a2)))

\* line 143
profileIndex == nAlongSegment * elementsCountAround + n1

\* one pass of the body of the loop of line 142
AlignPoint ==
    /\ pc = "align_point"
    /\ LET n == profileIndex
           turned == RGt(magnitude(cp), R(0))
           newRotFrame2 == IF turned /\ n1 = 0
                           THEN rotFrame2Of(MatVec(rotFrame, At(xInner, n)))
                           ELSE rotFrame2
           xRot2 == Rot2(turned, rotFrame, rotFrame2', At(xInner, n))
           d1Rot2 == Rot2(turned, rotFrame, rotFrame2', At(d1Inner, n))
           d2Rot2 == Rot2(turned, rotFrame, rotFrame2', At(d2Inner, n))
       IN  /\ rotFrame2' = newRotFrame2
           /\ IF translateMatrix = <<>>
              THEN \* line 176 reads translateMatrix before any assignment to it
                   /\ pc' = "raised"
                   /\ raised' = "UnboundLocalError"
                   /\ UNCHANGED << xInnerList, d1InnerList, d2InnerList, d3InnerUnitList,
                                   profileIndexList, n1, nSegment, nAlongSegment >>
              ELSE /\ xInnerList' = Append(xInnerList, VAdd(xRot2, translateMatrix))
                   /\ d1InnerList' = Append(d1InnerList, d1Rot2)
                   /\ d2InnerList' = Append(d2InnerList, d2Rot2)
                   /\ d3InnerUnitList' = Append(d3InnerUnitList, d3UnitOf(d1Rot2, d2Rot2))
                   /\ profileIndexList' = Append(profileIndexList, n)
                   /\ n1' = n1 + 1
                   /\ IF n1 + 1 < elementsCountAround
                      THEN pc' = "align_point" /\ UNCHANGED << nSegment, nAlongSegment >>
                      ELSE AlignAdvance
                   /\ UNCHANGED raised
    /\ UNCHANGED << args, derived, vertices, sink, frame, n2, n3, e1, e2, e3,
                    d1List, nodeIdentifier, elementIdentifier >>

\* --------------------------------------------- derivative smoother (183-191)
\* lines 184-189: positions and d2 of the fibre at angular index k
FibreOf(list, k) ==
    [st \in 1..elementsCountAlong + 1 |-> At(list, (st - 1) * elementsCountAround + k)]

Smooth ==
    /\ pc = "smooth"
    /\ smoothd2Raw' =
         [k \in 1..elementsCountAround |->
            smoothCubicHermiteDerivativesLine(FibreOf(xInnerList, k - 1),
                                              FibreOf(d2InnerList, k - 1))]
    /\ n1' = elementsCountAround - 1
    /\ pc' = "curvature"
    /\ UNCHANGED << args, aligned, vertices, sink,
                    smoothd2InnerList, curvatureAlong, xOuterList, curvatureInner,
                    nSegment, nAlongSegment, n2, n3, e1, e2, e3, raised,
                    d1List, nodeIdentifier, elementIdentifier >>

\* ---------------------------------- transpose and curvature along (193-205)
\* lines 197-204
curvatureAt(st) ==
    IF st = 0
    THEN getCubicHermiteCurvatureSimple(At(sx, st), At(sd1, st),
                                        At(sx, st + 1), At(sd1, st + 1), R(0))
    ELSE IF st = elementsCountAlong
    THEN getCubicHermiteCurvatureSimple(At(sx, st - 1), At(sd1, st - 1),
                                        At(sx, st), At(sd1, st), R(1))
    ELSE RMul(<<1, 2>>,
              RAdd(getCubicHermiteCurvatureSimple(At(sx, st - 1), At(sd1, st - 1),
                                                  At(sx, st), At(sd1, st), R(1)),
                   getCubicHermiteCurvatureSimple(At(sx, st), At(sd1, st),
                                                  At(sx, st + 1), At(sd1, st + 1), R(0))))

\* lines 193-195 laying the fibres one after the other
fibreMajor(raw) ==
    [n \in 1..now |->
        At(At(raw, (n - 1) \div (elementsCountAlong + 1)), (n - 1) % (elementsCountAlong + 1))]
\* lines 193-195: smoothd2Raw[n1][n2] taken station by station
stationMajor(raw) ==
    [n \in 1..now |->
        At(At(raw, (n - 1) % elementsCountAround), (n - 1) \div elementsCountAround)]

CurvatureAlong ==
    /\ pc = "curvature"
    /\ smoothd2InnerList' = stationMajor(smoothd2Raw)
    /\ curvatureAlong' =
         [n \in 1..now |-> curvatureAt((n - 1) \div elementsCountAround)]
    /\ n2' = elementsCountAlong
    /\ pc' = "outer"
    /\ UNCHANGED << args, aligned, vertices, sink,
                    smoothd2Raw, xOuterList, curvatureInner,
                    nSegment, nAlongSegment, n1, n3, e1, e2, e3, raised,
                    d1List, nodeIdentifier, elementIdentifier >>

\* ------------------- getOuterCoordinatesAndCurvatureFromInner (427-461)
\* lines 447-448
prevIdxOf(st, k, countAround) ==
    IF k # 0 THEN st * countAround + k - 1 ELSE (st + 1) * countAround - 1
nextIdxOf(st, k, countAround) ==
    IF k < countAround - 1 THEN st * countAround + k + 1 ELSE st * countAround

\* line 450: curvature at the end of the element before angular index k
kappamOf(xIn, d1In, st, k, countAround) ==
    getCubicHermiteCurvatureSimple(
        At(xIn, prevIdxOf(st, k, countAround)), At(d1In, prevIdxOf(st, k, countAround)),
        At(xIn, st * countAround + k), At(d1In, st * countAround + k), R(1))
\* line 451: curvature at the start of the element after angular index k
kappapOf(xIn, d1In, st, k, countAround) ==
    getCubicHermiteCurvatureSimple(
        At(xIn, st * countAround + k), At(d1In, st * countAround + k),
        At(xIn, nextIdxOf(st, k, countAround)), At(d1In, nextIdxOf(st, k, countAround)), R(0))

\* lines 452-457 with the two one-sided branches exchanged
curvatureAroundSwapped(kappam, kappap, transit, k, countAround) ==
    IF ~At(transit, k) /\ ~At(transit, (k - 1) % countAround)
    THEN RMul(<<1, 2>>, RAdd(kappam, kappap))
    ELSE IF At(transit, k) THEN kappap
    ELSE kappam

\* lines 452-457
curvatureAroundOf(kappam, kappap, transit, k, countAround) ==
    IF ~At(transit, k) /\ ~At(transit, (k - 1) % countAround)
    THEN RMul(<<1, 2>>, RAdd(kappam, kappap))
    ELSE IF At(transit, k) THEN kappam
    ELSE kappap

getOuterCoordinatesAndCurvatureFromInner(xIn, d1In, d3In, thickness, countAlong, countAround, transit) ==
    [ xOuter |->
        [n \in 1..(countAlong + 1) * countAround |->
            VAdd(xIn[n], VScale(thickness, d3In[n]))],
      curvatureInner |->
        [n \in 1..(countAlong + 1) * countAround |->
            curvatureAroundOf(
                kappamOf(xIn, d1In, (n - 1) \div countAround, (n - 1) % countAround, countAround),
                kappapOf(xIn, d1In, (n - 1) \div countAround, (n - 1) % countAround, countAround),
                transit, (n - 1) % countAround, countAround)] ]

\* line 208
Outer ==
    /\ pc = "outer"
    /\ LET result == getOuterCoordinatesAndCurvatureFromInner(xInnerList, d1InnerList,
                         d3InnerUnitList, wallThickness, elementsCountAlong,
                         elementsCountAround, transitElementList)
       IN  /\ xOuterList' = result.xOuter
           /\ curvatureInner' = result.curvatureInner
    /\ n3' = 0
    /\ pc' = "interpolate"
    /\ UNCHANGED << args, aligned, vertices, sink,
                    smoothd2Raw, smoothd2InnerList, curvatureAlong,
                    nSegment, nAlongSegment, n1, n2, e1, e2, e3, raised,
                    d1List, nodeIdentifier, elementIdentifier >>

\* ------------------------------ interpolatefromInnerAndOuter (463-515)
\* lines 492-497
vertexX(xIn, xOut, d3In, thickness, xi3, n) ==
    interpolateCubicHermite(xIn[n], VScale(thickness, d3In[n]),
                            xOut[n], VScale(thickness, d3In[n]), xi3)
\* line 500 without the thickness
factorAroundOfDepthOnly(thickness, xi3, curvature) ==
    RAdd(R(1), RMul(xi3, curvature))
\* line 500
factorAround(thickness, xi3, curvature) ==
    RAdd(R(1), RMul(RMul(thickness, xi3), curvature))
\* lines 504-506
factorAlong(curvature, x, centre) ==
    RAdd(R(1), RMul(curvature, magnitude(VSub(x, centre))))

\* the same with the two loops of lines 489-490 exchanged
interpolateAngularMajor(xIn, xOut, thickness, xi3, centres, curvIn, curvAlong, d1In, d2In, d3In, countAround, countAlong, countThroughWall) ==
    LET count == (countAlong + 1) * countAround
        from(p) == ((p - 1) % (countAlong + 1)) * countAround
                   + ((p - 1) \div (countAlong + 1)) + 1
        x(n) == vertexX(xIn, xOut, d3In, thickness, xi3, n)
        factor2(n) == factorAlong(curvAlong[n], x(n), At(centres, (n - 1) \div countAround))
    IN  [ xList |-> [p \in 1..count |-> x(from(p))],
          dx_ds1List |->
            [p \in 1..count |->
                VScale(factorAround(thickness, xi3, curvIn[from(p)]), d1In[from(p)])],
          dx_ds2List |-> [p \in 1..count |-> VScale(factor2(from(p)), d2In[from(p)])],
          dx_ds3List |->
            [p \in 1..count |->
                VScale(RDiv(thickness, R(countThroughWall)), d3In[from(p)])],
          factorList |-> [p \in 1..count |-> factor2(from(p))] ]

interpolatefromInnerAndOuter(xIn, xOut, thickness, xi3, centres, curvIn, curvAlong, d1In, d2In, d3In, countAround, countAlong, countThroughWall) ==
    LET count == (countAlong + 1) * countAround
        x(n) == vertexX(xIn, xOut, d3In, thickness, xi3, n)
        factor2(n) == factorAlong(curvAlong[n], x(n), At(centres, (n - 1) \div countAround))
    IN  [ xList |-> [n \in 1..count |-> x(n)],
          dx_ds1List |->
            [n \in 1..count |-> VScale(factorAround(thickness, xi3, curvIn[n]), d1In[n])],
          dx_ds2List |-> [n \in 1..count |-> VScale(factor2(n), d2In[n])],
          dx_ds3List |->
            [n \in 1..count |-> VScale(RDiv(thickness, R(countThroughWall)), d3In[n])],
          factorList |-> [n \in 1..count |-> factor2(n)] ]

\* line 212 dividing by the number of layers of nodes
xi3OverLayers(layer) == RMul(RDiv(R(1), R(elementsCountThroughWall + 1)), R(layer))
\* line 212
xi3At(layer) == RMul(RDiv(R(1), R(elementsCountThroughWall)), R(layer))

\* one pass of the body of the loop of lines 211-219
Interpolate ==
    /\ pc = "interpolate"
    /\ LET layer == interpolatefromInnerAndOuter(xInnerList, xOuterList, wallThickness,
                        xi3At(n3), sx, curvatureInner, curvatureAlong, d1InnerList,
                        smoothd2InnerList, d3InnerUnitList, elementsCountAround,
                        elementsCountAlong, elementsCountThroughWall)
       IN  /\ xList' = xList \o layer.xList
           /\ dx_ds1List' = dx_ds1List \o layer.dx_ds1List
           /\ dx_ds2List' = dx_ds2List \o layer.dx_ds2List
           /\ dx_ds3List' = dx_ds3List \o layer.dx_ds3List
           /\ factorList' = layer.factorList
    /\ n3' = n3 + 1
    /\ pc' = IF n3 + 1 < elementsCountThroughWall + 1 THEN "interpolate" ELSE "nodes"
    /\ UNCHANGED << args, aligned, derived, sink,
                    nSegment, nAlongSegment, n1, n2, e1, e2, e3, raised,
                    d1List, nodeIdentifier, elementIdentifier >>

\* ------------------------------------------------- create nodes (221-234)
\* the value labels of the setNodeParameters calls of lines 224-232
WrittenLabels ==
    {"VALUE", "D_DS1", "D_DS2", "D_DS3"}
    \cup (IF useCrossDerivatives
          THEN {"D2_DS1DS2", "D2_DS1DS3", "D2_DS2DS3", "D3_DS1DS2DS3"} ELSE {})

\* one pass of the body of the loop of line 221, n = nodeIdentifier - firstNodeIdentifier
CreateNode ==
    /\ pc = "nodes"
    /\ LET n == nodeIdentifier - firstNodeIdentifier
       IN  /\ nodes' = Append(nodes,
                [ identifier |-> nodeIdentifier,
                  declared |-> nodetemplate,
                  written |-> WrittenLabels,
                  x |-> At(xList, n),
                  dx_ds1 |-> At(dx_ds1List, n),
                  dx_ds2 |-> At(dx_ds2List, n),
                  dx_ds3 |-> At(dx_ds3List, n),
                  texture |-> <<>>,
                  flat |-> <<>> ])
           /\ nodeIdentifier' = nodeIdentifier + 1
           /\ IF n + 1 < Len(xList)
              THEN pc' = "nodes" /\ UNCHANGED << elementIdentifier, e1, e2, e3 >>
              ELSE /\ pc' = "elements"
                   /\ elementIdentifier' = firstElementIdentifier
                   /\ e1' = 0 /\ e2' = 0 /\ e3' = 0
    /\ UNCHANGED << args, aligned, derived, vertices, changeLevel, nodetemplate, elements,
                    nSegment, nAlongSegment, n1, n2, n3, raised, d1List >>

\* ---------------------------------------------- create elements (246-264)
\* lines 253-257 and 415-419
nodeIdentifiersOf(l3, l2, l1) ==
    LET bni11 == l3 * now + l2 * elementsCountAround + l1 + 1
        bni12 == l3 * now + l2 * elementsCountAround + ((l1 + 1) % elementsCountAround) + 1
        bni21 == l3 * now + (l2 + 1) * elementsCountAround + l1 + 1
        bni22 == l3 * now + (l2 + 1) * elementsCountAround + ((l1 + 1) % elementsCountAround) + 1
    IN  << bni11, bni12, bni21, bni22,
           bni11 + now, bni12 + now, bni21 + now, bni22 + now >>

\* the loop headers of lines 249-251 and 408-410 after one pass of the body
ElementAdvance(nextStage) ==
    IF e1 + 1 < elementsCountAround
    THEN e1' = e1 + 1 /\ UNCHANGED << e2, e3 >> /\ pc' = pc
    ELSE IF e2 + 1 < elementsCountAlong
    THEN e1' = 0 /\ e2' = e2 + 1 /\ UNCHANGED e3 /\ pc' = pc
    ELSE /\ e1' = 0 /\ e2' = 0 /\ e3' = e3 + 1
         /\ pc' = IF e3 + 1 < elementsCountThroughWall THEN pc ELSE nextStage

\* one pass of the body of the loop of lines 249-259
CreateElement ==
    /\ pc = "elements"
    /\ elements' = Append(elements,
            [ identifier |-> elementIdentifier,
              e |-> << e3, e2, e1 >>,
              nodeIdentifiers |-> nodeIdentifiersOf(e3, e2, e1),
              textureTemplate |-> "",
              flatTemplate |-> "",
              textureEft |-> "",
              textureNodeIdentifiers |-> <<>> ])
    /\ elementIdentifier' = elementIdentifier + 1
    /\ ElementAdvance("texture")
    /\ UNCHANGED << args, aligned, derived, vertices, changeLevel, nodetemplate, nodes,
                    nSegment, nAlongSegment, n1, n2, n3, raised, d1List, nodeIdentifier >>

\* ------------------------------- texture and flat coordinates (266-402)
\* lines 299-303 and 366-371: derivative 1 of each node around, scaled
d1ListOf(scale) ==
    [k \in 1..Len(uList) |->
        << RMul(IF k - 1 > 0 THEN RSub(At(uList, k - 1), At(uList, k - 2))
                ELSE RSub(At(uList, k), At(uList, k - 1)), scale),
           R(0), R(0) >>]

\* lines 306-308 and 374-376, from index i on; <<>> when an index of the
\* list is out of range (IndexError)
RECURSIVE ModifyTransition(_, _)
ModifyTransition(list, i) ==
    IF i >= Len(transitElementList) THEN list
    ELSE IF ~At(transitElementList, i) THEN ModifyTransition(list, i + 1)
    ELSE IF i + 2 >= Len(list) THEN <<>>
    ELSE ModifyTransition([list EXCEPT ![i + 2] = At(list, i + 2)], i + 1)

\* lines 296-310
TextureDerivatives ==
    /\ pc = "texture"
    /\ LET modified == ModifyTransition(d1ListOf(R(1)), 0)
       IN  IF modified = <<>>
           THEN /\ pc' = "raised" /\ raised' = "IndexError"
                /\ d1List' = d1ListOf(R(1))
                /\ UNCHANGED << nodeIdentifier, n1, n2, n3 >>
           ELSE /\ d1List' = modified
                /\ nodeIdentifier' = firstNodeIdentifier
                /\ n1' = 0 /\ n2' = 0 /\ n3' = 0
                /\ pc' = "texture_nodes"
                /\ UNCHANGED raised
    /\ UNCHANGED << args, aligned, derived, vertices, sink,
                    nSegment, nAlongSegment, e1, e2, e3, elementIdentifier >>

\* the loop headers of lines 311-313 and 379-381 after one pass of the body
NodeAdvance(nextStage) ==
    IF n1 + 1 < elementsCountAround
    THEN n1' = n1 + 1 /\ UNCHANGED << n2, n3 >> /\ pc' = pc
    ELSE IF n2 + 1 < elementsCountAlong + 1
    THEN n1' = 0 /\ n2' = n2 + 1 /\ UNCHANGED n3 /\ pc' = pc
    ELSE /\ n1' = 0 /\ n2' = 0 /\ n3' = n3 + 1
         /\ pc' = IF n3 + 1 < elementsCountThroughWall + 1 THEN pc ELSE nextStage

\* nodes.findNodeByIdentifier
NodeIndex(id) == CHOOSE i \in 1..Len(nodes) : nodes[i].identifier = id

\* the versions given to an unwrapped field at a node: two on the seam
\* (lines 319-333, 387-401)
Unwrapped(value1, value2) ==
    IF n1 = 0
    THEN [ versions |-> 2, value |-> << value1, value2 >>,
           d_ds1 |-> << At(d1List, n1), d1List[Len(d1List)] >> ]
    ELSE [ versions |-> 1, value |-> << value1 >>, d_ds1 |-> << At(d1List, n1) >> ]

\* one pass of the body of the loop of lines 311-334
TextureNode ==
    /\ pc = "texture_nodes"
    /\ LET along == RMul(RDiv(R(1), R(elementsCountAlong)), R(n2))
           through == RMul(RDiv(R(1), R(elementsCountThroughWall)), R(n3))
       IN  nodes' = [nodes EXCEPT ![NodeIndex(nodeIdentifier)].texture =
                        Unwrapped(<< At(uList, n1), along, through >>,
                                  << R(1), along, through >>)]
    /\ nodeIdentifier' = nodeIdentifier + 1
    /\ NodeAdvance("flat")
    /\ UNCHANGED << args, aligned, derived, vertices, changeLevel, nodetemplate, elements,
                    nSegment, nAlongSegment, e1, e2, e3, raised, d1List,
                    elementIdentifier >>

\* lines 362-378
FlatDerivatives ==
    /\ pc = "flat"
    /\ LET modified == ModifyTransition(d1ListOf(arcLengthOuterMidLength), 0)
       IN  IF modified = <<>>
           THEN /\ pc' = "raised" /\ raised' = "IndexError"
                /\ d1List' = d1ListOf(arcLengthOuterMidLength)
                /\ UNCHANGED << nodeIdentifier, n1, n2, n3 >>
           ELSE /\ d1List' = modified
                /\ nodeIdentifier' = firstNodeIdentifier
                /\ n1' = 0 /\ n2' = 0 /\ n3' = 0
                /\ pc' = "flat_nodes"
                /\ UNCHANGED raised
    /\ UNCHANGED << args, aligned, derived, vertices, sink,
                    nSegment, nAlongSegment, e1, e2, e3, elementIdentifier >>

\* one pass of the body of the loop of lines 379-402
FlatNode ==
    /\ pc = "flat_nodes"
    /\ LET totalLengthAlong == RMul(segmentLength, R(segmentCountAlong))
           along == RMul(RDiv(totalLengthAlong, R(elementsCountAlong)), R(n2))
           through == RMul(RDiv(wallThickness, R(elementsCountThroughWall)), R(n3))
       IN  nodes' = [nodes EXCEPT ![NodeIndex(nodeIdentifier)].flat =
                        Unwrapped(<< RMul(At(uList, n1), arcLengthOuterMidLength),
                                     along, through >>,
                                  << arcLengthOuterMidLength, along, through >>)]
    /\ nodeIdentifier' = nodeIdentifier + 1
    /\ NodeAdvance("merge")
    /\ IF pc' = "merge"
       THEN elementIdentifier' = firstElementIdentifier /\ e1' = 0 /\ e2' = 0 /\ e3' = 0
       ELSE UNCHANGED << elementIdentifier, e1, e2, e3 >>
    /\ UNCHANGED << args, aligned, derived, vertices, changeLevel, nodetemplate, elements,
                    nSegment, nAlongSegment, raised, d1List >>

\* ------------------------------ unwrapped fields over elements (404-421)
\* mesh.findElementByIdentifier
ElementIndex(id) == CHOOSE i \in 1..Len(elements) : elements[i].identifier = id

\* line 411
onOpening(l1) == l1 > elementsCountAround - 2

\* one pass of the body of the loop of lines 408-421
MergeElement ==
    /\ pc = "merge"
    /\ LET found == ElementIndex(elementIdentifier)
       IN  elements' = [elements EXCEPT ![found] =
             [ elements[found] EXCEPT
                !.textureTemplate = IF onOpening(e1) THEN "elementtemplate2"
                                    ELSE "elementtemplate1",
                !.flatTemplate = IF onOpening(e1) THEN "flatElementtemplate2"
                                 ELSE "flatElementtemplate1",
                !.textureEft = IF onOpening(e1) THEN "eftTexture2" ELSE "eftTexture1",
                !.textureNodeIdentifiers = nodeIdentifiersOf(e3, e2, e1) ]]
    /\ elementIdentifier' = elementIdentifier + 1
    /\ ElementAdvance("end")
    /\ UNCHANGED << args, aligned, derived, vertices, changeLevel, nodetemplate, nodes,
                    nSegment, nAlongSegment, n1, n2, n3, raised, d1List, nodeIdentifier >>

\* lines 423-425
EndChange ==
    /\ pc = "end"
    /\ changeLevel' = changeLevel - 1
    /\ pc' = "done"
    /\ UNCHANGED << args, counters, aligned, derived, vertices, nodetemplate, nodes,
                    elements, raised, d1List, nodeIdentifier, elementIdentifier >>

Next == BeginChange \/ AlignFrame \/ AlignPoint \/ Smooth \/ CurvatureAlong
        \/ Outer \/ Interpolate \/ CreateNode \/ CreateElement
        \/ TextureDerivatives \/ TextureNode \/ FlatDerivatives \/ FlatNode
        \/ MergeElement \/ EndChange
Spec == Init /\ [][Next]_vars

\* ================================================================ claims
AlignStages == {"begin", "align", "align_point"}
\* the face of the segment profile that is mapped to a station
faceOf(st) ==
    IF st <= elementsCountAlongSegment THEN st
    ELSE ((st - 1) % elementsCountAlongSegment) + 1
\* the aligned points of station st are in the lists
StationAligned(st) == Len(xInnerList) >= (st + 1) * elementsCountAround
HasDegenerateStation ==
    \E st \in 0..elementsCountAlong :
        crossproduct3(segmentAxis, normalise(At(sd1, st))) = zero

\* C1: at every station whose tangent equals segmentAxis the aligned
\* positions are the profile positions moved by the translation that puts
\* the midpoint of that station's face on that station's own sx[n2].
C1_OwnStationTranslation ==
    \A st \in 0..elementsCountAlong : \A k \in 0..elementsCountAround - 1 :
        (StationAligned(st) /\ At(sd1, st) = segmentAxis) =>
            At(xInnerList, st * elementsCountAround + k) =
                VAdd(At(xInner, faceOf(st) * elementsCountAround + k),
                     VSub(At(sx, st), segmentMidAt(faceOf(st))))

\* C2: an input with a degenerate station, the first station included,
\* raises no error in the frame aligner and gets an aligned point for every
\* (station, angular index).
C2_DegenerateStationsFallBack ==
    HasDegenerateStation =>
        /\ raised # "UnboundLocalError"
        /\ (pc \notin AlignStages => Len(xInnerList) = now)

\* stages of a run in which the vertex lists, and the nodes, are complete
VerticesDone == {"nodes", "elements", "texture", "texture_nodes", "flat",
                 "flat_nodes", "merge", "end", "done"}
NodesDone == VerticesDone \ {"nodes"}
\* the loop of lines 211-219 has just ended; the run has returned (line 425)
InterpolationDone == pc = "nodes" /\ nodeIdentifier = firstNodeIdentifier
Returned == pc = "done"
vertexCount == (elementsCountThroughWall + 1) * (elementsCountAlong + 1) * elementsCountAround
vertexIndex(l3, st, k) ==
    l3 * (elementsCountAlong + 1) * elementsCountAround + st * elementsCountAround + k

\* C3: there is exactly one vertex per (layer n3, station n2, angular index
\* n1): the four returned lists have (elementsCountThroughWall + 1) *
\* (elementsCountAlong + 1) * elementsCountAround entries, the vertex of the
\* triple is at index n3*(elementsCountAlong+1)*elementsCountAround +
\* n2*elementsCountAround + n1, each vertex is created as a node once, and
\* the returned nodeIdentifier is firstNodeIdentifier plus that count.
C3_OneVertexPerTriple ==
    /\ InterpolationDone \/ Returned =>
        /\ Len(xList) = vertexCount /\ Len(dx_ds1List) = vertexCount
        /\ Len(dx_ds2List) = vertexCount /\ Len(dx_ds3List) = vertexCount
        /\ \A l3 \in 0..elementsCountThroughWall : \A st \in 0..elementsCountAlong :
             \A k \in 0..elementsCountAround - 1 :
                At(xList, vertexIndex(l3, st, k)) =
                    VAdd(At(xInnerList, st * elementsCountAround + k),
                         VScale(RMul(RDiv(R(l3), R(elementsCountThroughWall)), wallThickness),
                                At(d3InnerUnitList, st * elementsCountAround + k)))
    /\ pc \in NodesDone =>
        /\ Len(nodes) = vertexCount
        /\ \A i \in 1..Len(nodes) : nodes[i].identifier = firstNodeIdentifier + i - 1
    /\ Returned =>
        /\ \A i \in 1..Len(nodes) : nodes[i].x = xList[i]
        /\ nodeIdentifier = firstNodeIdentifier + vertexCount

C3_Witness ==
    /\ pc = "done" /\ elementsCountThroughWall = 2 /\ segmentCountAlong = 2
    /\ elementsCountAround = 3 /\ Len(nodes) = vertexCount

\* getOuterCoordinatesAndCurvatureFromInner has just returned (line 208)
OuterReturned == pc = "interpolate" /\ n3 = 0
\* the element before and the element after angular index k are flagged
flagBefore(k) == At(transitElementList, (k - 1) % elementsCountAround)
flagAfter(k) == At(transitElementList, k)
kappamAt(st, k) == kappamOf(xInnerList, d1InnerList, st, k, elementsCountAround)
kappapAt(st, k) == kappapOf(xInnerList, d1InnerList, st, k, elementsCountAround)

\* C4 as claimed: with neither adjacent element flagged the curvature around
\* is 0.5*(kappam + kappap); otherwise it is the one-sided curvature of an
\* adjacent element that is not flagged.
C4_OneSidedFromPlainElement ==
    OuterReturned =>
        \A st \in 0..elementsCountAlong : \A k \in 0..elementsCountAround - 1 :
            LET curvature == At(curvatureInner, st * elementsCountAround + k)
            IN  IF ~flagBefore(k) /\ ~flagAfter(k)
                THEN curvature = RMul(<<1, 2>>, RAdd(kappamAt(st, k), kappapAt(st, k)))
                ELSE \/ ~flagBefore(k) /\ curvature = kappamAt(st, k)
                     \/ ~flagAfter(k) /\ curvature = kappapAt(st, k)

\* C4 amended: with neither adjacent element flagged the curvature around is
\* 0.5*(kappam + kappap); with exactly one flagged it is the one-sided
\* curvature of the other element; with both flagged it is kappam, the
\* curvature of the flagged element before the node.
C4_OneSidedCurvature ==
    OuterReturned =>
        \A st \in 0..elementsCountAlong : \A k \in 0..elementsCountAround - 1 :
            LET curvature == At(curvatureInner, st * elementsCountAround + k)
            IN  IF ~flagBefore(k) /\ ~flagAfter(k)
                THEN curvature = RMul(<<1, 2>>, RAdd(kappamAt(st, k), kappapAt(st, k)))
                ELSE IF flagAfter(k) /\ ~flagBefore(k) THEN curvature = kappamAt(st, k)
                ELSE IF flagBefore(k) /\ ~flagAfter(k) THEN curvature = kappapAt(st, k)
                ELSE curvature = kappamAt(st, k)

C4_Witness ==
    /\ OuterReturned
    /\ \E k \in 0..elementsCountAround - 1 : flagBefore(k) /\ flagAfter(k)
    /\ \E k \in 0..elementsCountAround - 1 :
            /\ flagBefore(k) /\ ~flagAfter(k)
            /\ kappamAt(0, k) # kappapAt(0, k)

\* derivative 1 of the angular interval from node j to node j + 1
intervalDerivative(j, scale) ==
    << RMul(RSub(At(uList, j + 1), At(uList, j)), scale), R(0), R(0) >>
\* the next interval after i that is not flagged
nextPlain(i) ==
    CHOOSE j \in i + 1..elementsCountAround :
        /\ j < elementsCountAround => ~At(transitElementList, j)
        /\ \A m \in i + 1..j - 1 : At(transitElementList, m)
\* the node passes of the texture field and of the flat field have just ended
TextureStored == pc = "flat"
FlatStored == pc = "merge" /\ elementIdentifier = firstElementIdentifier
nodeAround(k) == nodes[k + 1]

\* C5: for the texture and the flat field, for every flagged element i the
\* derivative 1 stored for angular node i + 1 is the derivative of the next
\* interval after i that is not flagged, for every flag pattern, and no
\* index leaves the derivative list.
C5_DerivativeOfNextPlainInterval ==
    /\ raised # "IndexError"
    /\ TextureStored =>
        \A i \in 0..elementsCountAround - 1 :
            (At(transitElementList, i) /\ i + 1 < elementsCountAround) =>
                nodeAround(i + 1).texture.d_ds1[1] = intervalDerivative(nextPlain(i), R(1))
    /\ FlatStored =>
        \A i \in 0..elementsCountAround - 1 :
            (At(transitElementList, i) /\ i + 1 < elementsCountAround) =>
                nodeAround(i + 1).flat.d_ds1[1] =
                    intervalDerivative(nextPlain(i), arcLengthOuterMidLength)

\* the index in the lists of one layer of the vertex v of the full lists,
\* and its station
inLayer(v) == ((v - 1) % now) + 1
stationOf(v) == (inLayer(v) - 1) \div elementsCountAround
\* line 505 on the inner surface
innerDistance(n) == magnitude(VSub(xInnerList[n], At(sx, stationOf(n))))

\* C6 as stated: with wallThickness = 0 the circumferential factor and the
\* longitudinal factor equal 1 at every layer and vertex, so that derivative
\* 1 and derivative 2 are the inner ones and factorList holds only 1.
C6_UnitFactorsWithoutWall ==
    (InterpolationDone /\ wallThickness = R(0)) =>
        /\ \A n \in 1..Len(factorList) : factorList[n] = R(1)
        /\ \A v \in 1..Len(xList) :
            /\ dx_ds1List[v] = d1InnerList[inLayer(v)]
            /\ dx_ds2List[v] = smoothd2InnerList[inLayer(v)]

\* C6 amended: with wallThickness = 0 the circumferential factor is 1 at
\* every layer and vertex (derivative 1 is the inner one), and the
\* longitudinal factor is 1 + curvatureAlong * distance of the inner point
\* to the central line at its station, at every layer.
C6_FactorsWithoutWall ==
    (InterpolationDone /\ wallThickness = R(0)) =>
        /\ Len(factorList) = now
        /\ \A l3 \in 0..elementsCountThroughWall : \A n \in 1..now :
            factorAround(wallThickness, xi3At(l3), curvatureInner[n]) = R(1)
        /\ \A n \in 1..Len(factorList) :
            factorList[n] = RAdd(R(1), RMul(curvatureAlong[n], innerDistance(n)))
        /\ \A v \in 1..Len(xList) :
            /\ dx_ds1List[v] = d1InnerList[inLayer(v)]
            /\ dx_ds2List[v] = VScale(factorList[inLayer(v)], smoothd2InnerList[inLayer(v)])
C6_Witness ==
    /\ InterpolationDone /\ wallThickness = R(0) /\ elementsCountThroughWall > 1
    /\ \E n \in 1..Len(factorList) : factorList[n] # R(1)
    /\ \E n \in 1..Len(curvatureInner) : curvatureInner[n] # R(0)

\* C7: the depth fractions are n3 / elementsCountThroughWall, in [0, 1],
\* first 0 and last 1; the first layer's positions are the inner positions
\* and the last layer's are xInner + wallThickness * unit normal, at every
\* station and angular index.
C7_LayersFromInnerToOuter ==
    InterpolationDone =>
        /\ \A l3 \in 0..elementsCountThroughWall :
            /\ xi3At(l3) = RDiv(R(l3), R(elementsCountThroughWall))
            /\ ~RGt(R(0), xi3At(l3)) /\ ~RGt(xi3At(l3), R(1))
        /\ xi3At(0) = R(0) /\ xi3At(elementsCountThroughWall) = R(1)
        /\ Len(xList) = vertexCount
        /\ \A n \in 1..now :
            /\ xList[n] = xInnerList[n]
            /\ xList[elementsCountThroughWall * now + n] =
                 VAdd(xInnerList[n], VScale(wallThickness, d3InnerUnitList[n]))
            /\ xList[elementsCountThroughWall * now + n] = xOuterList[n]
C7_Witness ==
    /\ InterpolationDone /\ elementsCountThroughWall = 2 /\ wallThickness = R(1)
    /\ xList[2 * now + 1] # xList[1]

\* the node created for a (layer, station, angular index) position
nodeAt(l3, st, k) == nodes[vertexIndex(l3, st, k) + 1]
\* the positions of the eight corners of element (e3, e2, e1), in the order
\* of the node identifiers of lines 257 and 419
cornersOf(l3, l2, l1) ==
    << << l3, l2, l1 >>, << l3, l2, (l1 + 1) % elementsCountAround >>,
       << l3, l2 + 1, l1 >>, << l3, l2 + 1, (l1 + 1) % elementsCountAround >>,
       << l3 + 1, l2, l1 >>, << l3 + 1, l2, (l1 + 1) % elementsCountAround >>,
       << l3 + 1, l2 + 1, l1 >>, << l3 + 1, l2 + 1, (l1 + 1) % elementsCountAround >> >>

\* C8: every ring of elements wraps around (the second angular nodes of an
\* element are the nodes of the next angular index, index 0 after the last,
\* of the same stations and layers), exactly the element with
\* e1 = elementsCountAround - 1 of each ring has the open-tube template for
\* texture and flat, and the nodes with two versions are exactly those of
\* angular index 0.
C8_RingWrapsAndOpensOnce ==
    Returned =>
        /\ Len(elements) = elementsCountThroughWall * elementsCountAlong * elementsCountAround
        /\ \A i \in 1..Len(elements) :
            LET el == elements[i]
                corners == cornersOf(el.e[1], el.e[2], el.e[3])
            IN  /\ \A c \in {2, 4, 6, 8} :
                    el.nodeIdentifiers[c] =
                        nodeAt(corners[c][1], corners[c][2], corners[c][3]).identifier
                /\ el.textureTemplate = "elementtemplate2"
                    <=> el.e[3] = elementsCountAround - 1
                /\ el.flatTemplate = "flatElementtemplate2"
                    <=> el.e[3] = elementsCountAround - 1
        /\ \A l3 \in 0..elementsCountThroughWall : \A st \in 0..elementsCountAlong :
            \A k \in 0..elementsCountAround - 1 :
                /\ nodeAt(l3, st, k).texture.versions = 2 <=> k = 0
                /\ nodeAt(l3, st, k).flat.versions = 2 <=> k = 0

\* C9: the factorList returned holds, per station and angular index, the
\* longitudinal scale factor of the node on the inner surface (layer 0).
C9_FactorListOfInnerSurface ==
    Returned =>
        /\ Len(factorList) = now
        /\ \A n \in 1..Len(factorList) :
            factorList[n] = factorAlong(curvatureAlong[n], xList[n], At(sx, stationOf(n)))

\* the stages whose step calls the node or element sink
SinkStages == {"nodes", "elements", "texture_nodes", "flat_nodes", "merge"}
\* C10: every call on the sink is made inside the one change scope, and a
\* run that has opened the scope has closed it when it stops, whether it
\* returns or stops on a failure.
C10_ChangeScopeClosed ==
    /\ pc \in SinkStages => changeLevel = 1
    /\ pc \in {"done", "raised"} => changeLevel = 0

\* the point appended last by the aligner (line 177), its station and its
\* angular index
lastPoint == Len(xInnerList) - 1
lastStation == lastPoint \div elementsCountAround
lastAround == lastPoint % elementsCountAround
\* the frame variables still belong to the station of the last point
FrameOfLastPoint ==
    /\ pc \in {"align", "align_point", "smooth"}
    /\ Len(xInnerList) > 0 /\ n2 = lastStation
\* R1 of the station of the frame variables: the identity when it is skipped
stationR1 == IF RGt(magnitude(cp), R(0)) THEN rotFrame ELSE identity3
\* R2 of that station, from its own first profile point and cross direction
stationR2 ==
    rotFrame2Of(MatVec(stationR1, At(xInner, faceOf(n2) * elementsCountAround)))

\* C11: at every station the point, the circumferential derivative and the
\* longitudinal derivative are turned by R1 and then by the R2 computed from
\* that station's first profile point and projected cross direction, also
\* at a station where R1 is skipped.
C11_OwnSecondRotation ==
    FrameOfLastPoint =>
        LET n == faceOf(n2) * elementsCountAround + lastAround
        IN  /\ VSub(At(xInnerList, lastPoint), translateMatrix) =
                 MatVec(stationR2, MatVec(stationR1, At(xInner, n)))
            /\ At(d1InnerList, lastPoint) =
                 MatVec(stationR2, MatVec(stationR1, At(d1Inner, n)))
            /\ At(d2InnerList, lastPoint) =
                 MatVec(stationR2, MatVec(stationR1, At(d2Inner, n)))

\* the aligner's loop has ended
AlignerDone == pc \notin AlignStages /\ raised # "UnboundLocalError"

\* C12: the aligner appends one point per (station n2, angular index n1),
\* station by station, so that index n2 * elementsCountAround + n1 holds the
\* point of station n2; a station shared by two segments is mapped once, as
\* the last face of the earlier segment, and the profile index used is that
\* of the face within the segment whatever the segment.
C12_OnePointPerStationAndIndex ==
    /\ pc = "align_point" =>
        /\ StationIsMapped
        /\ n2 = nSegment * elementsCountAlongSegment + nAlongSegment
        /\ Len(xInnerList) = n2 * elementsCountAround + n1
    /\ Len(d1InnerList) = Len(xInnerList) /\ Len(d2InnerList) = Len(xInnerList)
    /\ Len(d3InnerUnitList) = Len(xInnerList) /\ Len(profileIndexList) = Len(xInnerList)
    /\ \A p \in 0..Len(xInnerList) - 1 :
        At(profileIndexList, p) =
            faceOf(p \div elementsCountAround) * elementsCountAround
            + (p % elementsCountAround)
    /\ AlignerDone => Len(xInnerList) = now
C12_Witness ==
    /\ pc = "smooth" /\ segmentCountAlong = 2 /\ elementsCountAlongSegment = 2
    /\ Len(xInnerList) = now
    /\ At(profileIndexList, now - 1) =
         At(profileIndexList, now - 1 - elementsCountAlongSegment * elementsCountAround)

\* the smoothed derivative of the fibre of angular index k at station st
smoothedAt(st, k) ==
    At(smoothCubicHermiteDerivativesLine(FibreOf(xInnerList, k), FibreOf(d2InnerList, k)), st)
\* the transposition of lines 193-195 has just ended
Transposed == pc = "outer"

\* C13: the longitudinal derivative of vertex (n2, n1) given to the
\* interpolator is the smoothed derivative of fibre n1 at station n2; no
\* fibre is smoothed before every station is aligned; and from the end of
\* the aligner on, the aligned positions, derivatives and unit normals are
\* never changed.
C13_SmoothingChangesOnlyD2 ==
    /\ [](Transposed =>
            \A st \in 0..elementsCountAlong : \A k \in 0..elementsCountAround - 1 :
                At(smoothd2InnerList, st * elementsCountAround + k) = smoothedAt(st, k))
    /\ [](InterpolationDone =>
            \A v \in 1..Len(xList) :
                dx_ds2List[v] =
                    VScale(factorAlong(curvatureAlong[inLayer(v)], xList[v],
                                       At(sx, stationOf(v))),
                           smoothedAt(stationOf(v), (inLayer(v) - 1) % elementsCountAround)))
    /\ [](smoothd2Raw # <<>> => Len(xInnerList) = now /\ Len(d2InnerList) = now)
    /\ [][pc \notin AlignStages =>
            UNCHANGED << xInnerList, d1InnerList, d2InnerList, d3InnerUnitList >>]_vars
C13_Witness ==
    /\ InterpolationDone /\ elementsCountAlong > 1 /\ elementsCountThroughWall > 1
    /\ \E n \in 1..now : smoothd2InnerList[n] # d2InnerList[n]
    /\ \E n \in 1..now : smoothd2InnerList[n] # fibreMajor(smoothd2Raw)[n]

\* C14: for every firstNodeIdentifier, each of the eight node identifiers
\* given to an element, in the geometric pass and in the texture and flat
\* pass, is the identifier of the node created for the (layer, station,
\* angular index) position of that corner.
C14_ElementNodesAreOwnNodes ==
    Returned =>
        \A i \in 1..Len(elements) :
            LET el == elements[i]
                corners == cornersOf(el.e[1], el.e[2], el.e[3])
            IN  \A c \in 1..8 :
                    /\ el.nodeIdentifiers[c] =
                         nodeAt(corners[c][1], corners[c][2], corners[c][3]).identifier
                    /\ el.textureNodeIdentifiers[c] =
                         nodeAt(corners[c][1], corners[c][2], corners[c][3]).identifier
                    /\ \E k \in 1..Len(nodes) : nodes[k].identifier = el.nodeIdentifiers[c]

\* C15: for every combination of useCrossDerivatives and
\* useCubicHermiteThroughWall, the value labels for which a node parameter
\* is set are labels declared on the node template; with the linear
\* representation through the wall no d/ds3 label is among them.
C15_WrittenLabelsAreDeclared ==
    \A i \in 1..Len(nodes) :
        /\ nodes[i].written \subseteq nodes[i].declared
        /\ ~useCubicHermiteThroughWall =>
             nodes[i].written \cap {"D_DS3", "D2_DS1DS3", "D2_DS2DS3", "D3_DS1DS2DS3"} = {}
====
